---------------------------- MODULE Spec2Model ----------------------------
(***************************************************************************)
(* A model of sagemaker/serializers.py: the three serializers              *)
(* (CSVSerializer, NumpySerializer, JSONSerializer), the Python values     *)
(* they are handed, and the library conversions they call (csv.writer,     *)
(* json.dumps, numpy.array, numpy.save, ndarray.tolist, stream.read).      *)
(*                                                                         *)
(* Text is a sequence of one-character strings, so that formatting,        *)
(* quoting and parsing are computed and not assumed.                       *)
(***************************************************************************)
EXTENDS Integers, Sequences, FiniteSets, TLC

VARIABLES
    data,           \* the object the caller holds and passes to serialize
    before,         \* that object as it was when the last call started
    op,             \* the last operation: "init", "bind", "csv", "npy", "json"
    result,         \* what the last call returned or raised
    CONTENT_TYPE,   \* the CONTENT_TYPE attribute of each serializer
    dtype           \* NumpySerializer.dtype

vars == <<data, before, op, result, CONTENT_TYPE, dtype>>

----------------------------------------------------------------------------
(* Bounds of the inputs.                                                   *)

MaxLen == 2         \* longest flat sequence / widest array row
MaxRows == 2        \* most rows of a nested sequence / of a 2-D array
MaxKeys == 2        \* most entries of a dictionary

----------------------------------------------------------------------------
(* Python values. k is the type; the other fields depend on it.            *)

IntV(n) == [k |-> "int", v |-> n]
FloatV(h) == [k |-> "float", v |-> h]            \* the float h/2
StrV(s) == [k |-> "str", v |-> s]
NoneV == [k |-> "NoneType"]
ListV(s) == [k |-> "list", v |-> s]
TupleV(s) == [k |-> "tuple", v |-> s]
DictV(s) == [k |-> "dict", v |-> s]              \* <<key text, value>> pairs in iteration order
NdArray(dt, sh, flat) == [k |-> "ndarray", dtype |-> dt, shape |-> sh, v |-> flat]
Stream(c, p) == [k |-> "stream", content |-> c, pos |-> p]

(* What a call does: it returns a payload or raises.                       *)
Ok(p) == [tag |-> "return", payload |-> p]
Raise(t, m) == [tag |-> "raise", type |-> t, msg |-> m]
NoResult == [tag |-> "none"]

----------------------------------------------------------------------------
(* Sequence helpers.                                                       *)

RECURSIVE Concat(_)
Concat(ss) == IF ss = <<>> THEN <<>> ELSE Head(ss) \o Concat(Tail(ss))

RECURSIVE Join(_, _)
Join(ss, sep) ==
    IF ss = <<>> THEN <<>>
    ELSE IF Len(ss) = 1 THEN ss[1]
    ELSE ss[1] \o sep \o Join(Tail(ss), sep)

Map(s, F(_)) == [i \in 1..Len(s) |-> F(s[i])]

Contains(s, c) == \E i \in 1..Len(s) : s[i] = c

RECURSIVE Product(_)
Product(sh) == IF sh = <<>> THEN 1 ELSE Head(sh) * Product(Tail(sh))

SeqsUpTo(S, n) == UNION {[1..m -> S] : m \in 0..n}

----------------------------------------------------------------------------
(* str() and repr() of Python values.                                      *)

Digits == <<"0", "1", "2", "3", "4", "5", "6", "7", "8", "9">>

RECURSIVE NatToStr(_)
NatToStr(n) == IF n < 10 THEN <<Digits[n + 1]>> ELSE NatToStr(n \div 10) \o <<Digits[(n % 10) + 1]>>

IntToStr(n) == IF n < 0 THEN <<"-">> \o NatToStr(-n) ELSE NatToStr(n)

(* repr of the float h/2: "1.5", "-3.0".                                   *)
FloatRepr(h) ==
    LET a == IF h < 0 THEN -h ELSE h
    IN  (IF h < 0 THEN <<"-">> ELSE <<>>) \o NatToStr(a \div 2)
            \o <<".">> \o (IF a % 2 = 0 THEN <<"0">> ELSE <<"5">>)

(* repr of a str over the alphabet of the inputs (no ' and no \ in it).    *)
ReprChar(c) == IF c = "\n" THEN <<"\\", "n">> ELSE <<c>>
StrRepr(s) == <<"'">> \o Concat(Map(s, ReprChar)) \o <<"'">>

LJust(s, w) == [i \in 1..(w - Len(s)) |-> " "] \o s

RECURSIVE MaxOf(_)
MaxOf(ns) == IF Len(ns) = 1 THEN ns[1]
             ELSE LET m == MaxOf(Tail(ns)) IN IF ns[1] > m THEN ns[1] ELSE m

RECURSIVE PyRepr(_)
PyRepr(x) ==
    CASE x.k = "int" -> IntToStr(x.v)
      [] x.k = "float" -> FloatRepr(x.v)
      [] x.k = "str" -> StrRepr(x.v)
      [] x.k = "NoneType" -> <<"N", "o", "n", "e">>
      [] x.k = "list" -> <<"[">> \o Join(Map(x.v, PyRepr), <<",", " ">>) \o <<"]">>
      [] x.k = "tuple" ->
            IF Len(x.v) = 1 THEN <<"(">> \o PyRepr(x.v[1]) \o <<",", ")">>
            ELSE <<"(">> \o Join(Map(x.v, PyRepr), <<",", " ">>) \o <<")">>
      [] x.k = "dict" ->
            LET Item(kv) == StrRepr(kv[1]) \o <<":", " ">> \o PyRepr(kv[2])
            IN  <<"{">> \o Join(Map(x.v, Item), <<",", " ">>) \o <<"}">>
      \* str of a 1-D integer array: the elements right-justified to a
      \* common width and separated by one space
      [] x.k = "ndarray" /\ Len(x.shape) = 1 /\ x.dtype = "int64" /\ x.v # <<>> ->
            LET es == [i \in 1..Len(x.v) |-> IntToStr(x.v[i].v)]
                w == MaxOf([i \in 1..Len(es) |-> Len(es[i])])
            IN  <<"[">> \o Join([i \in 1..Len(es) |-> LJust(es[i], w)], <<" ">>) \o <<"]">>

PyStr(x) == IF x.k = "str" THEN x.v ELSE PyRepr(x)

----------------------------------------------------------------------------
(* The attributes and protocols the serializers probe, by type.            *)

hasattr(d, name) ==
    CASE name = "read" -> d.k = "stream"
      [] name = "__iter__" -> d.k \in {"list", "tuple", "dict", "str", "ndarray", "stream"}
      [] name = "__getitem__" -> d.k \in {"list", "tuple", "dict", "str", "ndarray"}
      [] name = "__setitem__" -> d.k \in {"list", "dict", "ndarray"}
      [] name = "__len__" -> d.k \in {"list", "tuple", "dict", "str", "ndarray"}

(* len(d): a TypeError for an object without __len__ and for a 0-d array.  *)
len(d) ==
    IF ~hasattr(d, "__len__")
    THEN Raise("TypeError", <<"object has no len()", d.k>>)
    ELSE IF d.k = "ndarray"
    THEN IF d.shape = <<>> THEN Raise("TypeError", <<"len() of unsized object">>)
         ELSE Ok(d.shape[1])
    ELSE Ok(Len(d.v))

(* a[i] of an array with at least one dimension: a scalar or a sub-array.  *)
SubArray(a, i) ==
    LET sh == Tail(a.shape)
        n == Product(sh)
    IN  IF sh = <<>> THEN a.v[i]
        ELSE NdArray(a.dtype, sh, SubSeq(a.v, (i - 1) * n + 1, i * n))

(* d[0] of a non-empty object with __getitem__. The keys of a dictionary   *)
(* are strings here, so d[0] is a KeyError.                                *)
getitem0(d) ==
    CASE d.k \in {"list", "tuple"} -> Ok(d.v[1])
      [] d.k = "str" -> Ok(StrV(<<d.v[1]>>))
      [] d.k = "ndarray" -> Ok(SubArray(d, 1))
      [] d.k = "dict" -> Raise("KeyError", <<"0">>)

(* The elements iterating over d yields.                                   *)
iter(d) ==
    CASE d.k \in {"list", "tuple"} -> d.v
      [] d.k = "str" -> [i \in 1..Len(d.v) |-> StrV(<<d.v[i]>>)]
      [] d.k = "dict" -> [i \in 1..Len(d.v) |-> StrV(d.v[i][1])]
      [] d.k = "ndarray" -> [i \in 1..d.shape[1] |-> SubArray(d, i)]

(* np.ndarray.flatten: a one-dimensional copy in row-major order.          *)
flatten(a) == NdArray(a.dtype, <<Len(a.v)>>, a.v)

(* stream.read(): the content from the read position on; the position     *)
(* moves to the end.                                                       *)
read(d) == SubSeq(d.content, d.pos + 1, Len(d.content))
AfterRead(d) == [d EXCEPT !.pos = Len(d.content)]

(* What serialize does: what it returns or raises, and the state it        *)
(* leaves its argument in.                                                 *)
Outcome(r, d) == [ret |-> r, arg |-> d]

----------------------------------------------------------------------------
(* csv.writer(buffer, delimiter=",").writerow(row), as written to the      *)
(* buffer: QUOTE_MINIMAL, quote character ", line terminator \r\n.         *)

CsvField(e) ==
    IF e.k = "NoneType" THEN <<>> ELSE PyStr(e)

CsvNeedsQuote(s) == \E i \in 1..Len(s) : s[i] \in {",", "\"", "\r", "\n"}

CsvQuote(s) ==
    LET Dbl(c) == IF c = "\"" THEN <<"\"", "\"">> ELSE <<c>>
    IN  <<"\"">> \o Concat(Map(s, Dbl)) \o <<"\"">>

writerow(fields) ==
    LET Cell(e) == LET s == CsvField(e) IN IF CsvNeedsQuote(s) THEN CsvQuote(s) ELSE s
        rec == Join(Map(fields, Cell), <<",">>)
    IN  (IF Len(fields) > 0 /\ rec = <<>> THEN <<"\"", "\"">> ELSE rec) \o <<"\r", "\n">>

RECURSIVE rstrip(_, _)
rstrip(s, chars) ==
    IF s # <<>> /\ s[Len(s)] \in chars THEN rstrip(SubSeq(s, 1, Len(s) - 1), chars) ELSE s

----------------------------------------------------------------------------
(* CSVSerializer                                                           *)

_is_sequence_like(d) == hasattr(d, "__iter__") /\ hasattr(d, "__getitem__")

(* Variants of _serialize_row: without the check for an empty row, and     *)
(* without stripping the writer's line terminator.                         *)
_serialize_row_no_empty_check(d) ==
    IF d.k = "str" THEN Ok(d.v)
    ELSE LET row == IF d.k = "ndarray" THEN flatten(d) ELSE d
         IN  IF hasattr(row, "__len__")
             THEN Ok(rstrip(writerow(iter(row)), {"\r", "\n"}))
             ELSE Raise("ValueError", <<"Unable to handle input format: ", d.k>>)

_serialize_row_keeps_terminator(d) ==
    IF d.k = "str" THEN Ok(d.v)
    ELSE LET row == IF d.k = "ndarray" THEN flatten(d) ELSE d
         IN  IF hasattr(row, "__len__")
             THEN IF len(row).payload = 0
                  THEN Raise("ValueError", <<"Cannot serialize empty array">>)
                  ELSE Ok(writerow(iter(row)))
             ELSE Raise("ValueError", <<"Unable to handle input format: ", d.k>>)

_serialize_row(d) ==
    IF d.k = "str" THEN Ok(d.v)
    ELSE LET row == IF d.k = "ndarray" THEN flatten(d) ELSE d
         IN  IF hasattr(row, "__len__")
             THEN IF len(row).payload = 0
                  THEN Raise("ValueError", <<"Cannot serialize empty array">>)
                  ELSE Ok(rstrip(writerow(iter(row)), {"\r", "\n"}))
             ELSE Raise("ValueError", <<"Unable to handle input format: ", d.k>>)

(* A variant of JoinRows: the rows joined by the writer's line terminator. *)
JoinRows_crlf(rows) ==
    LET rs == [i \in 1..Len(rows) |-> _serialize_row(rows[i])]
        bad == {i \in 1..Len(rs) : rs[i].tag = "raise"}
    IN  IF bad # {} THEN rs[CHOOSE i \in bad : \A j \in bad : i <= j]
        ELSE Ok(Join([i \in 1..Len(rs) |-> rs[i].payload], <<"\r", "\n">>))

(* "\n".join([self._serialize_row(row) for row in data]): the first row    *)
(* that raises ends the call.                                              *)
JoinRows(rows) ==
    LET rs == [i \in 1..Len(rows) |-> _serialize_row(rows[i])]
        bad == {i \in 1..Len(rs) : rs[i].tag = "raise"}
    IN  IF bad # {} THEN rs[CHOOSE i \in bad : \A j \in bad : i <= j]
        ELSE Ok(Join([i \in 1..Len(rs) |-> rs[i].payload], <<"\n">>))

CSVSerializer_serialize(d) ==
    IF hasattr(d, "read") THEN Outcome(Ok(read(d)), AfterRead(d))
    ELSE LET is_mutable_sequence_like == _is_sequence_like(d) /\ hasattr(d, "__setitem__")
             n == len(d)
         IN  IF n.tag = "raise" THEN Outcome(n, d)
             ELSE IF n.payload > 0 /\ getitem0(d).tag = "raise" THEN Outcome(getitem0(d), d)
             ELSE LET has_multiple_rows == n.payload > 0 /\ _is_sequence_like(getitem0(d).payload)
                  IN  IF is_mutable_sequence_like /\ has_multiple_rows
                      THEN Outcome(JoinRows(iter(d)), d)
                      ELSE Outcome(_serialize_row(d), d)

----------------------------------------------------------------------------
(* Bytes. A byte is a number in 0..255; a character of text is encoded by  *)
(* its ASCII code.                                                         *)

(* The printable ASCII characters, code 32 first (code 96 is never used    *)
(* and has a placeholder).                                                 *)
Ascii ==
    <<
    " ", "!", "\"", "#", "$", "%", "&", "'", "(", ")", "*", "+", ",", "-", ".", "/",
    "0", "1", "2", "3", "4", "5", "6", "7", "8", "9", ":", ";", "<", "=", ">", "?",
    "@", "A", "B", "C", "D", "E", "F", "G", "H", "I", "J", "K", "L", "M", "N", "O",
    "P", "Q", "R", "S", "T", "U", "V", "W", "X", "Y", "Z", "[", "\\", "]", "^", "_",
    "<96>", "a", "b", "c", "d", "e", "f", "g", "h", "i", "j", "k", "l", "m", "n", "o",
    "p", "q", "r", "s", "t", "u", "v", "w", "x", "y", "z", "{", "|", "}", "~"
    >>

Ord(c) == IF c = "\n" THEN 10 ELSE IF c = "\r" THEN 13
          ELSE 31 + (CHOOSE i \in 1..Len(Ascii) : Ascii[i] = c)
Chr(b) == IF b = 10 THEN "\n" ELSE IF b = 13 THEN "\r" ELSE Ascii[b - 31]

Encode(text) == [i \in 1..Len(text) |-> Ord(text[i])]
Decode(bytes) == [i \in 1..Len(bytes) |-> Chr(bytes[i])]

Zeros(n) == [i \in 1..n |-> 0]

RECURSIVE Pow2(_)
Pow2(n) == IF n = 0 THEN 1 ELSE 2 * Pow2(n - 1)

RECURSIVE Log2Floor(_)
Log2Floor(m) == IF m < 2 THEN 0 ELSE 1 + Log2Floor(m \div 2)

Reverse(s) == [i \in 1..Len(s) |-> s[Len(s) + 1 - i]]

(* A signed integer in n bytes, little-endian two's complement.            *)
RECURSIVE IntBytes(_, _)
IntBytes(v, n) == IF n = 0 THEN <<>> ELSE <<v % 256>> \o IntBytes(v \div 256, n - 1)

RECURSIVE BytesInt(_)
BytesInt(bs) ==
    IF Len(bs) = 1 THEN (IF bs[1] >= 128 THEN bs[1] - 256 ELSE bs[1])
    ELSE bs[1] + 256 * BytesInt(Tail(bs))

(* The IEEE 754 encoding, little-endian, of the float h/2: binary64 with   *)
(* an 11-bit exponent biased by 1023, binary32 with an 8-bit exponent      *)
(* biased by 127. |h| < 2^12, so the fraction fits the leading bytes.      *)
F64Bytes(h) ==
    IF h = 0 THEN Zeros(8)
    ELSE LET m == IF h < 0 THEN -h ELSE h
             e == Log2Floor(m)
             biased == 1022 + e
             frac == (m - Pow2(e)) * Pow2(12 - e)
         IN  Reverse(<<(IF h < 0 THEN 128 ELSE 0) + biased \div 16,
                       (biased % 16) * 16 + frac \div 256,
                       frac % 256, 0, 0, 0, 0, 0>>)

BytesF64(bs) ==
    IF bs = Zeros(8) THEN 0
    ELSE LET b == Reverse(bs)
             biased == (b[1] % 128) * 16 + b[2] \div 16
             frac == (b[2] % 16) * 256 + b[3]
             e == biased - 1022
             m == Pow2(e) + frac \div Pow2(12 - e)
         IN  IF b[1] >= 128 THEN -m ELSE m

F32Bytes(h) ==
    IF h = 0 THEN Zeros(4)
    ELSE LET m == IF h < 0 THEN -h ELSE h
             e == Log2Floor(m)
             biased == 126 + e
             frac == (m - Pow2(e)) * Pow2(15 - e)
         IN  Reverse(<<(IF h < 0 THEN 128 ELSE 0) + biased \div 2,
                       (biased % 2) * 128 + frac \div 256,
                       frac % 256, 0>>)

BytesF32(bs) ==
    IF bs = Zeros(4) THEN 0
    ELSE LET b == Reverse(bs)
             biased == (b[1] % 128) * 2 + b[2] \div 128
             frac == (b[2] % 128) * 256 + b[3]
             e == biased - 126
             m == Pow2(e) + frac \div Pow2(15 - e)
         IN  IF b[1] >= 128 THEN -m ELSE m

----------------------------------------------------------------------------
(* numpy.array(obj, dtype): the array numpy builds from a Python object.   *)
(* An array's elements are kept as IntV (integer dtypes), FloatV (float    *)
(* dtypes), StrV (unicode) or the objects themselves (object dtype).       *)

Ragged == <<-1>>

(* The shape numpy discovers: strings, numbers, None and dictionaries are  *)
(* scalars; a sequence whose elements differ in shape has none.            *)
RECURSIVE DiscoverShape(_)
DiscoverShape(x) ==
    CASE x.k = "ndarray" -> x.shape
      [] x.k \in {"list", "tuple"} ->
            IF x.v = <<>> THEN <<0>>
            ELSE LET s1 == DiscoverShape(x.v[1])
                 IN  IF s1 # Ragged /\ \A i \in 1..Len(x.v) : DiscoverShape(x.v[i]) = s1
                     THEN <<Len(x.v)>> \o s1
                     ELSE Ragged
      [] OTHER -> <<>>

(* The scalars of obj in row-major order.                                  *)
RECURSIVE Leaves(_)
Leaves(x) ==
    CASE x.k = "ndarray" -> x.v
      [] x.k \in {"list", "tuple"} -> Concat(Map(x.v, Leaves))
      [] OTHER -> <<x>>

(* The element type numpy infers: float64 for no element at all, int64 for *)
(* integers, float64 once a float is among them, unicode once a string is  *)
(* among numbers, object for anything else.                                *)
InferDtype(leaves) ==
    LET kinds == {leaves[i].k : i \in 1..Len(leaves)}
    IN  IF kinds = {} THEN "float64"
        ELSE IF kinds \subseteq {"int"} THEN "int64"
        ELSE IF kinds \subseteq {"int", "float"} THEN "float64"
        ELSE IF kinds \subseteq {"int", "float", "str"} THEN "unicode"
        ELSE "object"

TruncHalf(h) == IF h >= 0 THEN h \div 2 ELSE -((-h) \div 2)

(* One element converted to the element type dt. The strings of the inputs *)
(* are not numerals, so converting one to a number is a ValueError.        *)
CastOk(e, dt) == dt \in {"unicode", "object"} \/ e.k \in {"int", "float"}

Cast(e, dt) ==
    CASE dt \in {"int64", "int32"} -> IF e.k = "float" THEN IntV(TruncHalf(e.v)) ELSE e
      [] dt \in {"float64", "float32"} -> IF e.k = "int" THEN FloatV(2 * e.v) ELSE e
      [] dt = "unicode" -> StrV(PyStr(e))
      [] dt = "object" -> e

np_array(obj, dt) ==
    LET sh == DiscoverShape(obj)
        leaves == Leaves(obj)
        t == IF dt = "None" THEN InferDtype(leaves) ELSE dt
    IN  IF sh = Ragged
        THEN Raise("ValueError", <<"setting an array element with a sequence (inhomogeneous shape)">>)
        ELSE IF \E i \in 1..Len(leaves) : ~CastOk(leaves[i], t)
        THEN Raise("ValueError", <<"invalid literal", t>>)
        ELSE Ok(NdArray(t, sh, [i \in 1..Len(leaves) |-> Cast(leaves[i], t)]))

----------------------------------------------------------------------------
(* numpy.save(buffer, array): the .npy file, version 1.0. Magic string,    *)
(* version, little-endian header length, the header (a Python dictionary   *)
(* literal padded with spaces to a multiple of 64 bytes and ended by a     *)
(* newline), then the elements in row-major order.                         *)

Magic == <<147>> \o Encode(<<"N", "U", "M", "P", "Y">>)

ItemWidth(a) ==
    LET ws == {Len(a.v[i].v) : i \in 1..Len(a.v)} \cup {1}
    IN  CHOOSE w \in ws : \A u \in ws : u <= w

Descr(a) ==
    CASE a.dtype = "int64" -> <<"<", "i", "8">>
      [] a.dtype = "int32" -> <<"<", "i", "4">>
      [] a.dtype = "float64" -> <<"<", "f", "8">>
      [] a.dtype = "float32" -> <<"<", "f", "4">>
      [] a.dtype = "unicode" -> <<"<", "U">> \o NatToStr(ItemWidth(a))
      [] a.dtype = "object" -> <<"|", "O">>

ShapeRepr(sh) ==
    IF Len(sh) = 1 THEN <<"(">> \o NatToStr(sh[1]) \o <<",", ")">>
    ELSE <<"(">> \o Join(Map(sh, NatToStr), <<",", " ">>) \o <<")">>

HeaderDict(a) ==
    <<"{", "'", "d", "e", "s", "c", "r", "'", ":", " ", "'">> \o Descr(a)
    \o <<"'", ",", " ", "'", "f", "o", "r", "t", "r", "a", "n", "_", "o", "r", "d", "e", "r", "'",
         ":", " ", "F", "a", "l", "s", "e", ",", " ",
         "'", "s", "h", "a", "p", "e", "'", ":", " ">>
    \o ShapeRepr(a.shape) \o <<",", " ", "}">>

(* The 10 bytes before the header and the header make a multiple of 64.    *)
Header(a) ==
    LET d == HeaderDict(a)
        pad == (64 - ((10 + Len(d) + 1) % 64)) % 64
    IN  d \o [i \in 1..pad |-> " "] \o <<"\n">>

(* The elements of an object array are pickled; the pickle stream is kept  *)
(* as a prefix encoding of the object: a type code, then the content.      *)
RECURSIVE Pickle(_)
Pickle(x) ==
    CASE x.k = "NoneType" -> <<Ord("N")>>
      [] x.k = "int" -> <<Ord("J")>> \o IntBytes(x.v, 4)
      [] x.k = "float" -> <<Ord("G")>> \o Reverse(F64Bytes(x.v))
      [] x.k = "str" -> <<Ord("X")>> \o IntBytes(Len(x.v), 4) \o Encode(x.v)
      [] x.k = "list" -> <<Ord("]"), Ord("(")>> \o Concat(Map(x.v, Pickle)) \o <<Ord("e")>>
      [] x.k = "tuple" -> <<Ord("(")>> \o Concat(Map(x.v, Pickle)) \o <<Ord("t")>>
      [] x.k = "dict" ->
            LET Item(kv) == Pickle(StrV(kv[1])) \o Pickle(kv[2])
            IN  <<Ord("}"), Ord("(")>> \o Concat(Map(x.v, Item)) \o <<Ord("u")>>
      [] x.k = "ndarray" ->
            <<Ord("c")>> \o Encode(Descr(x)) \o Encode(ShapeRepr(x.shape))
            \o Concat([i \in 1..Len(x.v) |-> Pickle(x.v[i])]) \o <<Ord("b")>>

ElementBytes(a, e) ==
    CASE a.dtype = "int64" -> IntBytes(e.v, 8)
      [] a.dtype = "int32" -> IntBytes(e.v, 4)
      [] a.dtype = "float64" -> F64Bytes(e.v)
      [] a.dtype = "float32" -> F32Bytes(e.v)
      [] a.dtype = "unicode" ->
            Concat([i \in 1..ItemWidth(a) |->
                       IF i <= Len(e.v) THEN IntBytes(Ord(e.v[i]), 4) ELSE Zeros(4)])
      [] a.dtype = "object" -> Pickle(e)

np_save(a) ==
    LET h == Encode(Header(a))
    IN  Magic \o <<1, 0>> \o IntBytes(Len(h), 2) \o h
        \o Concat([i \in 1..Len(a.v) |-> ElementBytes(a, a.v[i])])

----------------------------------------------------------------------------
(* numpy.load(buffer) with its defaults (allow_pickle=False): the reader   *)
(* of the .npy format.                                                     *)

DigitVal(c) == (CHOOSE i \in 1..10 : Digits[i] = c) - 1

RECURSIVE ParseNat(_)
ParseNat(cs) ==
    IF Len(cs) = 1 THEN DigitVal(cs[1])
    ELSE 10 * ParseNat(SubSeq(cs, 1, Len(cs) - 1)) + DigitVal(cs[Len(cs)])

(* The position of the first c in s at or after position i; Len(s)+1 if    *)
(* there is none.                                                          *)
RECURSIVE Find(_, _, _)
Find(s, c, i) == IF i > Len(s) \/ s[i] = c THEN i ELSE Find(s, c, i + 1)

(* The numbers of a tuple literal's inside: "", "3,", "2, 3".              *)
RECURSIVE ParseShape(_)
ParseShape(cs) ==
    IF cs = <<>> THEN <<>>
    ELSE IF cs[1] \in {",", " "} THEN ParseShape(Tail(cs))
    ELSE LET j == Find(cs, ",", 1)
         IN  <<ParseNat(SubSeq(cs, 1, j - 1))>> \o ParseShape(SubSeq(cs, j, Len(cs)))

DescrDtype(d) ==
    CASE d = <<"<", "i", "8">> -> "int64"
      [] d = <<"<", "i", "4">> -> "int32"
      [] d = <<"<", "f", "8">> -> "float64"
      [] d = <<"<", "f", "4">> -> "float32"
      [] d = <<"|", "O">> -> "object"
      [] OTHER -> "unicode"

ItemSize(d) ==
    CASE DescrDtype(d) \in {"int64", "float64"} -> 8
      [] DescrDtype(d) \in {"int32", "float32"} -> 4
      [] DescrDtype(d) = "unicode" -> 4 * ParseNat(SubSeq(d, 3, Len(d)))

RECURSIVE UnicodeChars(_)
UnicodeChars(bs) ==
    IF bs = <<>> \/ SubSeq(bs, 1, 4) = Zeros(4) THEN <<>>
    ELSE <<Chr(BytesInt(SubSeq(bs, 1, 4)))>> \o UnicodeChars(SubSeq(bs, 5, Len(bs)))

BytesElement(dt, bs) ==
    CASE dt \in {"int64", "int32"} -> IntV(BytesInt(bs))
      [] dt = "float64" -> FloatV(BytesF64(bs))
      [] dt = "float32" -> FloatV(BytesF32(bs))
      [] dt = "unicode" -> StrV(UnicodeChars(bs))

np_load(bytes) ==
    IF Len(bytes) < 10 \/ SubSeq(bytes, 1, 6) # Magic
    THEN Raise("ValueError", <<"not a .npy file">>)
    ELSE LET hlen == bytes[9] + 256 * bytes[10]
             h == Decode(SubSeq(bytes, 11, 10 + hlen))
             body == SubSeq(bytes, 11 + hlen, Len(bytes))
             \* {'descr': '<i8', 'fortran_order': False, 'shape': (2, 3), }
             d1 == Find(h, ":", 1) + 3
             d2 == Find(h, "'", d1)
             descr == SubSeq(h, d1, d2 - 1)
             s1 == Find(h, "(", d2) + 1
             s2 == Find(h, ")", s1)
             sh == ParseShape(SubSeq(h, s1, s2 - 1))
             dt == DescrDtype(descr)
         IN  IF dt = "object"
             THEN Raise("ValueError", <<"Object arrays cannot be loaded when allow_pickle=False">>)
             ELSE LET w == ItemSize(descr)
                  IN  Ok(NdArray(dt, sh,
                         [i \in 1..Product(sh) |->
                             BytesElement(dt, SubSeq(body, (i - 1) * w + 1, i * w))]))

----------------------------------------------------------------------------
(* NumpySerializer                                                         *)

_serialize_array(array) == Ok(np_save(array))

(* array.size                                                              *)
size(a) == Product(a.shape)

(* Variants of NumpySerializer.serialize: one that builds a new array of   *)
(* the declared element type from an array too, one without the check for  *)
(* an empty list.                                                          *)
NumpySerializer_serialize_casts(self, d) ==
    IF d.k \in {"ndarray", "list"}
    THEN IF (IF d.k = "ndarray" THEN size(d) ELSE Len(d.v)) = 0
         THEN Outcome(Raise("ValueError", <<"Cannot serialize empty array.">>), d)
         ELSE LET a == np_array(d, self.dtype)
              IN  Outcome(IF a.tag = "raise" THEN a ELSE _serialize_array(a.payload), d)
    ELSE IF hasattr(d, "read")
    THEN Outcome(Ok(read(d)), AfterRead(d))
    ELSE LET a == np_array(d, "None")
         IN  Outcome(IF a.tag = "raise" THEN a ELSE _serialize_array(a.payload), d)

NumpySerializer_serialize_no_empty_check(self, d) ==
    IF d.k = "ndarray"
    THEN IF size(d) = 0
         THEN Outcome(Raise("ValueError", <<"Cannot serialize empty array.">>), d)
         ELSE Outcome(_serialize_array(d), d)
    ELSE IF d.k = "list"
    THEN LET a == np_array(d, self.dtype)
         IN  Outcome(IF a.tag = "raise" THEN a ELSE _serialize_array(a.payload), d)
    ELSE IF hasattr(d, "read")
    THEN Outcome(Ok(read(d)), AfterRead(d))
    ELSE LET a == np_array(d, "None")
         IN  Outcome(IF a.tag = "raise" THEN a ELSE _serialize_array(a.payload), d)

NumpySerializer_serialize(self, d) ==
    IF d.k = "ndarray"
    THEN IF size(d) = 0
         THEN Outcome(Raise("ValueError", <<"Cannot serialize empty array.">>), d)
         ELSE Outcome(_serialize_array(d), d)
    ELSE IF d.k = "list"
    THEN IF Len(d.v) = 0
         THEN Outcome(Raise("ValueError", <<"Cannot serialize empty array.">>), d)
         ELSE LET a == np_array(d, self.dtype)
              IN  Outcome(IF a.tag = "raise" THEN a ELSE _serialize_array(a.payload), d)
    ELSE IF hasattr(d, "read")
    THEN Outcome(Ok(read(d)), AfterRead(d))
    ELSE LET a == np_array(d, "None")
         IN  Outcome(IF a.tag = "raise" THEN a ELSE _serialize_array(a.payload), d)

----------------------------------------------------------------------------
(* ndarray.tolist(): the nested lists of Python scalars (a scalar for a    *)
(* 0-d array).                                                             *)

RECURSIVE NestedList(_, _)
NestedList(sh, flat) ==
    IF sh = <<>> THEN flat[1]
    ELSE LET n == Product(Tail(sh))
         IN  ListV([i \in 1..sh[1] |-> NestedList(Tail(sh), SubSeq(flat, (i - 1) * n + 1, i * n))])

tolist(a) == NestedList(a.shape, a.v)

----------------------------------------------------------------------------
(* json.dumps(obj) with its defaults: separators ", " and ": ", strings    *)
(* in double quotes with " \ and control characters escaped, tuples as     *)
(* arrays, None as null; a TypeError for any other type.                   *)

RECURSIVE JsonSerializable(_)
JsonSerializable(x) ==
    CASE x.k \in {"int", "float", "str", "NoneType"} -> TRUE
      [] x.k \in {"list", "tuple"} -> \A i \in 1..Len(x.v) : JsonSerializable(x.v[i])
      [] x.k = "dict" -> \A i \in 1..Len(x.v) : JsonSerializable(x.v[i][2])
      [] OTHER -> FALSE

(* The type json.dumps names in its TypeError: that of the first object,   *)
(* depth first, it cannot encode.                                          *)
RECURSIVE Unserializable(_)
Unserializable(x) ==
    CASE x.k \in {"list", "tuple"} ->
            Unserializable(x.v[CHOOSE i \in 1..Len(x.v) :
                /\ ~JsonSerializable(x.v[i])
                /\ \A j \in 1..(i - 1) : JsonSerializable(x.v[j])])
      [] x.k = "dict" ->
            Unserializable(x.v[CHOOSE i \in 1..Len(x.v) :
                /\ ~JsonSerializable(x.v[i][2])
                /\ \A j \in 1..(i - 1) : JsonSerializable(x.v[j][2])][2])
      [] OTHER -> x.k

JsonEscape(c) ==
    CASE c = "\"" -> <<"\\", "\"">>
      [] c = "\\" -> <<"\\", "\\">>
      [] c = "\n" -> <<"\\", "n">>
      [] c = "\r" -> <<"\\", "r">>
      [] OTHER -> <<c>>

JsonString(s) == <<"\"">> \o Concat(Map(s, JsonEscape)) \o <<"\"">>

RECURSIVE JsonText(_)
JsonText(x) ==
    CASE x.k = "int" -> IntToStr(x.v)
      [] x.k = "float" -> FloatRepr(x.v)
      [] x.k = "str" -> JsonString(x.v)
      [] x.k = "NoneType" -> <<"n", "u", "l", "l">>
      [] x.k \in {"list", "tuple"} -> <<"[">> \o Join(Map(x.v, JsonText), <<",", " ">>) \o <<"]">>
      [] x.k = "dict" ->
            LET Item(kv) == JsonString(kv[1]) \o <<":", " ">> \o JsonText(kv[2])
            IN  <<"{">> \o Join(Map(x.v, Item), <<",", " ">>) \o <<"}">>

json_dumps(x) ==
    IF JsonSerializable(x) THEN Ok(JsonText(x))
    ELSE Raise("TypeError", <<"Object is not JSON serializable", Unserializable(x)>>)

----------------------------------------------------------------------------
(* json.loads(text): a recursive-descent reader of the JSON text. Each     *)
(* step returns the value read and the position after it.                  *)

At(s, i) == IF i <= Len(s) THEN s[i] ELSE ""
Read(val, pos) == [val |-> val, pos |-> pos]

RECURSIVE ParseString(_, _, _)
ParseString(s, i, acc) ==
    IF At(s, i) = "\"" THEN Read(acc, i + 1)
    ELSE IF At(s, i) = "\\"
    THEN LET c == At(s, i + 1)
             u == IF c = "n" THEN "\n" ELSE IF c = "r" THEN "\r" ELSE c
         IN  ParseString(s, i + 2, Append(acc, u))
    ELSE ParseString(s, i + 1, Append(acc, s[i]))

RECURSIVE NumberEnd(_, _)
NumberEnd(s, i) ==
    IF At(s, i) \in {"-", ".", "0", "1", "2", "3", "4", "5", "6", "7", "8", "9"}
    THEN NumberEnd(s, i + 1) ELSE i

(* A number: an int without a fraction, else the float (in halves).        *)
ParseNumber(cs) ==
    LET neg == cs[1] = "-"
        digits == IF neg THEN Tail(cs) ELSE cs
        dot == Find(digits, ".", 1)
        whole == ParseNat(SubSeq(digits, 1, dot - 1))
    IN  IF dot > Len(digits)
        THEN IntV(IF neg THEN -whole ELSE whole)
        ELSE LET h == 2 * whole + (IF digits[dot + 1] = "5" THEN 1 ELSE 0)
             IN  FloatV(IF neg THEN -h ELSE h)

RECURSIVE ParseValue(_, _), ParseElements(_, _, _), ParseMembers(_, _, _)
ParseValue(s, i) ==
    CASE At(s, i) = "{" -> ParseMembers(s, i + 1, <<>>)
      [] At(s, i) = "[" -> ParseElements(s, i + 1, <<>>)
      [] At(s, i) = "\"" -> LET r == ParseString(s, i + 1, <<>>) IN Read(StrV(r.val), r.pos)
      [] At(s, i) = "n" -> Read(NoneV, i + 4)
      [] OTHER -> LET j == NumberEnd(s, i) IN Read(ParseNumber(SubSeq(s, i, j - 1)), j)

ParseElements(s, i, acc) ==
    IF At(s, i) = "]" THEN Read(ListV(acc), i + 1)
    ELSE IF At(s, i) \in {",", " "} THEN ParseElements(s, i + 1, acc)
    ELSE LET r == ParseValue(s, i) IN ParseElements(s, r.pos, Append(acc, r.val))

ParseMembers(s, i, acc) ==
    IF At(s, i) = "}" THEN Read(DictV(acc), i + 1)
    ELSE IF At(s, i) \in {",", " "} THEN ParseMembers(s, i + 1, acc)
    ELSE LET key == ParseString(s, i + 1, <<>>)
             r == ParseValue(s, key.pos + 2)
         IN  ParseMembers(s, r.pos, Append(acc, <<key.val, r.val>>))

json_loads(s) == ParseValue(s, 1).val

----------------------------------------------------------------------------
(* JSONSerializer                                                          *)

(* Variants of JSONSerializer.serialize: one that stores the converted     *)
(* values back into the dictionary, one without the stream branch, one     *)
(* that does not convert arrays.                                           *)
JSONSerializer_serialize_in_place(d) ==
    IF d.k = "dict"
    THEN LET converted == DictV([i \in 1..Len(d.v) |->
                    <<d.v[i][1], IF d.v[i][2].k = "ndarray" THEN tolist(d.v[i][2]) ELSE d.v[i][2]>>])
         IN  Outcome(json_dumps(converted), converted)
    ELSE IF hasattr(d, "read") THEN Outcome(Ok(read(d)), AfterRead(d))
    ELSE IF d.k = "ndarray" THEN Outcome(json_dumps(tolist(d)), d)
    ELSE Outcome(json_dumps(d), d)

JSONSerializer_serialize_no_stream(d) ==
    IF d.k = "dict"
    THEN Outcome(json_dumps(DictV([i \in 1..Len(d.v) |->
                    <<d.v[i][1], IF d.v[i][2].k = "ndarray" THEN tolist(d.v[i][2]) ELSE d.v[i][2]>>])), d)
    ELSE IF d.k = "ndarray" THEN Outcome(json_dumps(tolist(d)), d)
    ELSE Outcome(json_dumps(d), d)

JSONSerializer_serialize_no_tolist(d) ==
    IF d.k = "dict" THEN Outcome(json_dumps(d), d)
    ELSE IF hasattr(d, "read") THEN Outcome(Ok(read(d)), AfterRead(d))
    ELSE IF d.k = "ndarray" THEN Outcome(json_dumps(tolist(d)), d)
    ELSE Outcome(json_dumps(d), d)

JSONSerializer_serialize(d) ==
    IF d.k = "dict"
    THEN Outcome(json_dumps(DictV([i \in 1..Len(d.v) |->
                    <<d.v[i][1], IF d.v[i][2].k = "ndarray" THEN tolist(d.v[i][2]) ELSE d.v[i][2]>>])), d)
    ELSE IF hasattr(d, "read") THEN Outcome(Ok(read(d)), AfterRead(d))
    ELSE IF d.k = "ndarray" THEN Outcome(json_dumps(tolist(d)), d)
    ELSE Outcome(json_dumps(d), d)

----------------------------------------------------------------------------
(* The inputs: every kind of object the serializers distinguish.           *)

Ints(ns) == [i \in 1..Len(ns) |-> IntV(ns[i])]
Floats(hs) == [i \in 1..Len(hs) |-> FloatV(hs[i])]

(* None, numbers and strings: plain, empty, with a delimiter, with a quote *)
Scalars ==
    {NoneV, IntV(-3), IntV(0), IntV(12), FloatV(3), FloatV(-5),
     StrV(<<>>), StrV(<<"a", "b">>), StrV(<<"a", ",", "b">>), StrV(<<"q", "\"">>)}

(* Lists and tuples of scalars, the empty ones included.                   *)
FlatElements == {IntV(-3), IntV(12), FloatV(3), StrV(<<"a", ",", "b">>)}
FlatSequences ==
    {ListV(s) : s \in SeqsUpTo(FlatElements, MaxLen)}
        \cup {TupleV(s) : s \in SeqsUpTo(FlatElements, MaxLen)}

(* Arrays of no, one and two dimensions, zero-length ones included, filled *)
(* from a fixed cycle of elements.                                         *)
ArrayShapes ==
    {<<>>} \cup {<<n>> : n \in 0..MaxLen} \cup {<<r, c>> : r \in 0..MaxRows, c \in 0..MaxLen}
ArrayDtypes == {"int64", "float64", "float32"}
Fill(dt, n, start) ==
    LET cycle == IF dt = "int64" THEN Ints(<<-3, 12, 0, 7>>) ELSE Floats(<<3, -5, 0, 24>>)
    IN  [i \in 1..n |-> cycle[((start + i) % 4) + 1]]
Arrays ==
    {NdArray(dt, sh, Fill(dt, Product(sh), start)) :
        dt \in ArrayDtypes, sh \in ArrayShapes, start \in {0, 1}}

(* Sequences of rows: lists and tuples whose elements are rows of every    *)
(* kind (list, tuple, array, empty, itself nested), and, for the inputs    *)
(* whose first and later elements differ in shape, a number and a string.  *)
Rows ==
    {ListV(Ints(<<-3, 12>>)), ListV(Ints(<<7>>)), TupleV(<<IntV(0), FloatV(3)>>),
     ListV(<<>>), NdArray("int64", <<2>>, Ints(<<12, 7>>)),
     ListV(<<StrV(<<"a", ",", "b">>), IntV(0)>>),
     ListV(<<ListV(Ints(<<1, 2>>)), ListV(Ints(<<3>>))>>),
     IntV(5), StrV(<<"a", "b">>)}
NestedSequences ==
    {ListV(s) : s \in SeqsUpTo(Rows, MaxRows) \ {<<>>}}
        \cup {TupleV(s) : s \in SeqsUpTo(Rows, MaxRows) \ {<<>>}}

(* Dictionaries with string keys, in every order of the keys; among the    *)
(* values are arrays, directly and inside a list or a dictionary.          *)
Keys == {<<"a">>, <<"b">>, <<"c", "\"">>}
Values ==
    {IntV(12), StrV(<<"a", ",", "b">>), ListV(<<IntV(-3), FloatV(3)>>),
     NdArray("int64", <<2>>, Ints(<<12, 7>>)),
     NdArray("float32", <<2, 2>>, Floats(<<3, -5, 0, 24>>)),
     ListV(<<NdArray("int64", <<1>>, Ints(<<7>>))>>),
     DictV(<< <<<<"a">>, NdArray("int64", <<1>>, Ints(<<7>>))>> >>),
     DictV(<< <<<<"b">>, ListV(<<IntV(0), NoneV>>)>> >>)}
Dicts ==
    {DictV(s) : s \in {t \in SeqsUpTo(Keys \X Values, MaxKeys) :
                          \A i, j \in 1..Len(t) : i # j => t[i][1] # t[j][1]}}

(* Streams: text and bytes, empty, well-formed or not, read from the start *)
(* or from a later position.                                               *)
StreamContents ==
    {<<>>, <<"1", ",", "2", "\n", "3">>, <<"{", "\"", "a">>,
     np_save(NdArray("int64", <<1>>, Ints(<<7>>))), <<0, 255>>}
Streams == {Stream(c, p) : c \in StreamContents, p \in {0, 1}} \ {Stream(<<>>, 1)}

Inputs == Scalars \cup FlatSequences \cup Arrays \cup NestedSequences \cup Dicts \cup Streams

(* What the caller may pass next, after the first object.                  *)
NextInputs ==
    {IntV(12), ListV(<<>>), ListV(Ints(<<-3, 12>>)), DictV(<<>>),
     NdArray("float64", <<1>>, Floats(<<3>>)), Stream(<<"1", ",", "2", "\n", "3">>, 0)}

(* NumpySerializer(dtype=...)                                              *)
DtypeHints == {"None", "int64", "float32"}

ContentTypes == [csv |-> "text/csv", npy |-> "application/x-npy", json |-> "application/json"]

----------------------------------------------------------------------------
(* The state machine: a caller constructs the three serializers and calls  *)
(* serialize on the object it holds, any number of times, in any order.    *)

__init__(dt) == [dtype |-> dt]

(* A call of serialize has been made on the object held.                   *)
Serialized == op \in {"csv", "npy", "json"}

Init ==
    /\ data \in Inputs
    /\ before = data
    /\ op = "init"
    /\ result = NoResult
    /\ CONTENT_TYPE = ContentTypes
    /\ dtype \in {__init__(dt).dtype : dt \in DtypeHints}

Call(name, outcome) ==
    /\ op' = name
    /\ before' = data
    /\ data' = outcome.arg
    /\ result' = outcome.ret

CSVSerialize ==
    /\ Call("csv", CSVSerializer_serialize(data))
    /\ UNCHANGED <<CONTENT_TYPE, dtype>>

(* A variant of NumpySerialize: the serializer adopts the element type of  *)
(* the array it is given.                                                  *)
NumpySerialize_adopts_dtype ==
    /\ Call("npy", NumpySerializer_serialize([dtype |-> dtype], data))
    /\ dtype' = IF data.k = "ndarray" THEN data.dtype ELSE dtype
    /\ UNCHANGED CONTENT_TYPE

NumpySerialize ==
    /\ Call("npy", NumpySerializer_serialize([dtype |-> dtype], data))
    /\ UNCHANGED <<CONTENT_TYPE, dtype>>

JSONSerialize ==
    /\ Call("json", JSONSerializer_serialize(data))
    /\ UNCHANGED <<CONTENT_TYPE, dtype>>

(* The caller takes up another object.                                     *)
Rebind ==
    /\ Serialized
    /\ \E d \in NextInputs :
        /\ data' = d
        /\ before' = d
    /\ op' = "bind"
    /\ result' = NoResult
    /\ UNCHANGED <<CONTENT_TYPE, dtype>>

Next == CSVSerialize \/ NumpySerialize \/ JSONSerialize \/ Rebind

Spec == Init /\ [][Next]_vars

----------------------------------------------------------------------------
(* Properties.                                                             *)

IsNumber(x) == x.k \in {"int", "float"}
NumberText(x) == IF x.k = "int" THEN IntToStr(x.v) ELSE FloatRepr(x.v)

EmptyArrayCsv == Raise("ValueError", <<"Cannot serialize empty array">>)
EmptyArrayNpy == Raise("ValueError", <<"Cannot serialize empty array.">>)
UnsupportedShape(x) == Raise("ValueError", <<"Unable to handle input format: ", x.k>>)

(* C1: CSVSerializer.serialize of a non-stream object that has no length   *)
(* and is not a string (an int, a float, None) raises the row encoder's    *)
(* error naming the unhandled type, and no other error.                    *)
C1_ScalarRaisesUnsupportedShape ==
    (op = "csv" /\ before.k \in {"int", "float", "NoneType"})
        => result = UnsupportedShape(before)

(* The length of a collection; an array's number of elements.              *)
IsCollection(x) == x.k \in {"list", "tuple", "dict", "ndarray"}
IsEmpty(x) == IF x.k = "ndarray" THEN size(x) = 0 ELSE Len(x.v) = 0

(* The empty collections: an empty list, tuple, array or dictionary, and a *)
(* list whose only row is empty.                                           *)
IsEmptyCollection(x) ==
    /\ IsCollection(x)
    /\ \/ IsEmpty(x)
       \/ x.k = "list" /\ Len(x.v) = 1 /\ IsCollection(x.v[1]) /\ IsEmpty(x.v[1])

(* C2, as claimed: every serializer raises on every empty collection and   *)
(* returns no payload.                                                     *)
C2_EveryEncoderRejectsEmpty ==
    (Serialized /\ IsEmptyCollection(before)) => result.tag = "raise"

(* C2, amended: CSVSerializer raises the empty-array ValueError on every   *)
(* empty collection; NumpySerializer raises it on the empty list and on an *)
(* array with zero elements.                                               *)
C2_CsvAndNumpyRejectEmpty ==
    /\ (op = "csv" /\ IsEmptyCollection(before)) => result = EmptyArrayCsv
    /\ (op = "npy" /\ before.k \in {"list", "ndarray"} /\ IsEmpty(before))
            => result = EmptyArrayNpy

C2_Witness ==
    /\ op = "csv"
    /\ before = ListV(<<ListV(<<>>)>>)
    /\ result.tag = "raise"

(* The rows of a sequence of rows, serialized one by one by                *)
(* CSVSerializer.serialize and joined by a newline; the error of the first *)
(* row that raises, if one does.                                           *)
RowByRow(rows) ==
    LET rs == [i \in 1..Len(rows) |-> CSVSerializer_serialize(rows[i]).ret]
        bad == {i \in 1..Len(rs) : rs[i].tag = "raise"}
    IN  IF bad # {} THEN rs[CHOOSE i \in bad : \A j \in bad : i <= j]
        ELSE Ok(Join([i \in 1..Len(rs) |-> rs[i].payload], <<"\n">>))

(* A flat sequence of numbers: a list, a tuple or a 1-D array.             *)
IsFlatNumeric(x) ==
    \/ x.k \in {"list", "tuple"} /\ \A i \in 1..Len(x.v) : IsNumber(x.v[i])
    \/ x.k = "ndarray" /\ Len(x.shape) = 1

(* A non-empty sequence of flat numeric rows: a list or a tuple of them,   *)
(* or a 2-D array.                                                         *)
IsTable(x) ==
    \/ x.k \in {"list", "tuple"} /\ Len(x.v) > 0 /\ \A i \in 1..Len(x.v) : IsFlatNumeric(x.v[i])
    \/ x.k = "ndarray" /\ Len(x.shape) = 2 /\ x.shape[1] > 0

(* C3, as claimed: whatever the container, a non-empty sequence of rows    *)
(* serializes to its rows' serializations, in order, joined by a newline.  *)
C3_AnyContainerRowByRow ==
    (op = "csv" /\ IsTable(before)) => result = RowByRow(iter(before))

(* C3, amended: this holds when the container is a list or a 2-D array     *)
(* (an object with item assignment) and the rows are flat sequences of     *)
(* numbers.                                                                *)
C3_MutableContainerRowByRow ==
    (op = "csv" /\ IsTable(before) /\ before.k \in {"list", "ndarray"})
        => result = RowByRow(iter(before))

C3_Witness ==
    /\ op = "csv"
    /\ before = ListV(<<ListV(Ints(<<-3, 12>>)), TupleV(<<IntV(0), FloatV(3)>>)>>)
    /\ result = Ok(<<"-", "3", ",", "1", "2", "\n", "0", ",", "1", ".", "5">>)

(* C4, as claimed: serialize leaves its argument as it was, a stream and   *)
(* its read position included.                                             *)
C4_InputUnchanged == Serialized => data = before

(* C4, amended: serialize leaves an argument that is not a stream as it    *)
(* was; it reads a stream to its end, so that the next serialize of that   *)
(* stream returns empty content.                                           *)
C4_OnlyStreamsConsumed ==
    Serialized =>
        /\ before.k # "stream" => data = before
        /\ before.k = "stream" =>
            /\ data = Stream(before.content, Len(before.content))
            /\ CSVSerializer_serialize(data).ret = Ok(<<>>)
            /\ NumpySerializer_serialize([dtype |-> dtype], data).ret = Ok(<<>>)
            /\ JSONSerializer_serialize(data).ret = Ok(<<>>)

C4_Witness ==
    /\ Serialized
    /\ before.k = "stream"
    /\ before.pos < Len(before.content)
    /\ data.pos = Len(data.content)

(* C5: serialize of a stream returns exactly what the stream's read        *)
(* returns, whatever the content, and never raises.                        *)
C5_StreamPassThrough ==
    (Serialized /\ before.k = "stream")
        => result = Ok(SubSeq(before.content, before.pos + 1, Len(before.content)))

C5_Witness ==
    /\ op = "npy"
    /\ before = Stream(<<"{", "\"", "a">>, 1)
    /\ result = Ok(<<"\"", "a">>)

(* C6: for every NumpySerializer, with or without a declared element type, *)
(* reading back the serialization of a non-empty array gives an array      *)
(* equal to it, with its shape and its element type.                       *)
C6_ArrayRoundTrip ==
    (op = "npy" /\ before.k = "ndarray" /\ size(before) > 0)
        => /\ result.tag = "return"
           /\ np_load(result.payload) = Ok(before)

C6_Witness ==
    /\ op = "npy"
    /\ dtype = "float32"
    /\ before.k = "ndarray"
    /\ before.dtype = "int64"
    /\ before.shape = <<2, 2>>
    /\ result.tag = "return"

(* Values JSON has a form for: numbers, strings, null, lists and           *)
(* string-keyed dictionaries of them.                                      *)
RECURSIVE JsonRepresentable(_)
JsonRepresentable(x) ==
    CASE x.k \in {"int", "float", "str", "NoneType"} -> TRUE
      [] x.k = "list" -> \A i \in 1..Len(x.v) : JsonRepresentable(x.v[i])
      [] x.k = "dict" -> \A i \in 1..Len(x.v) : JsonRepresentable(x.v[i][2])
      [] OTHER -> FALSE

(* The same, with arrays allowed at any depth.                             *)
RECURSIVE RepresentableOrArray(_)
RepresentableOrArray(x) ==
    CASE x.k \in {"int", "float", "str", "NoneType", "ndarray"} -> TRUE
      [] x.k = "list" -> \A i \in 1..Len(x.v) : RepresentableOrArray(x.v[i])
      [] x.k = "dict" -> \A i \in 1..Len(x.v) : RepresentableOrArray(x.v[i][2])
      [] OTHER -> FALSE

(* x with every array in it replaced by its nested lists.                  *)
RECURSIVE ArraysAsLists(_)
ArraysAsLists(x) ==
    CASE x.k = "ndarray" -> NestedList(x.shape, x.v)
      [] x.k = "list" -> ListV([i \in 1..Len(x.v) |-> ArraysAsLists(x.v[i])])
      [] x.k = "dict" -> DictV([i \in 1..Len(x.v) |-> <<x.v[i][1], ArraysAsLists(x.v[i][2])>>])
      [] OTHER -> x

(* C7, as claimed: a dictionary whose values are JSON-representable or     *)
(* arrays, at any nesting depth, serializes, and the text decodes to the   *)
(* same keys in the same order with every array replaced by nested lists.  *)
C7_DictRoundTripAnyDepth ==
    (op = "json" /\ before.k = "dict" /\ RepresentableOrArray(before))
        => /\ result.tag = "return"
           /\ json_loads(result.payload) = ArraysAsLists(before)

(* C7, amended: this holds when each value of the dictionary is an array   *)
(* or is JSON-representable with no array inside it.                       *)
C7_DictRoundTripTopLevelArrays ==
    (/\ op = "json"
     /\ before.k = "dict"
     /\ \A i \in 1..Len(before.v) :
            before.v[i][2].k = "ndarray" \/ JsonRepresentable(before.v[i][2]))
        => /\ result.tag = "return"
           /\ json_loads(result.payload) = ArraysAsLists(before)

C7_Witness ==
    /\ op = "json"
    /\ before = DictV(<< <<<<"c", "\"">>, NdArray("float32", <<2, 2>>, Floats(<<3, -5, 0, 24>>))>>,
                         <<<<"a">>, StrV(<<"a", ",", "b">>)>> >>)
    /\ result.tag = "return"

(* C8: CSVSerializer.serialize([]) and NumpySerializer.serialize of [] or  *)
(* of an array with zero elements raise the empty-array ValueError, for    *)
(* every element-type setting of the NumpySerializer.                      *)
C8_EmptyInputError ==
    /\ (op = "csv" /\ before = ListV(<<>>)) => result = EmptyArrayCsv
    /\ (op = "npy" /\ before.k \in {"list", "ndarray"} /\ IsEmpty(before))
            => result = EmptyArrayNpy

C8_Witness ==
    /\ op = "npy"
    /\ dtype = "int64"
    /\ before = ListV(<<>>)
    /\ result.tag = "raise"

(* C9: a non-empty flat sequence of numbers (list, tuple, 1-D array)       *)
(* serializes to its elements in order joined by commas, one record with   *)
(* no newline in it and no line terminator after it.                       *)
C9_FlatRecord ==
    (op = "csv" /\ IsFlatNumeric(before) /\ ~IsEmpty(before))
        => /\ result = Ok(Join(Map(iter(before), NumberText), <<",">>))
           /\ ~Contains(result.payload, "\n")
           /\ ~Contains(result.payload, "\r")

C9_Witness ==
    /\ op = "csv"
    /\ before = TupleV(<<IntV(-3), FloatV(3)>>)
    /\ result = Ok(<<"-", "3", ",", "1", ".", "5">>)

(* C10: whatever is serialized, and whether the call returns or raises,    *)
(* every serializer keeps its content type and the NumpySerializer the     *)
(* element type it was constructed with.                                   *)
C10_EncoderStateFixed ==
    /\ CONTENT_TYPE = ContentTypes
    /\ [][CONTENT_TYPE' = CONTENT_TYPE /\ dtype' = dtype]_vars

C10_Witness ==
    /\ op = "npy"
    /\ result.tag = "raise"
    /\ dtype = "float32"
    /\ CONTENT_TYPE = ContentTypes

============================================================================
